---- MODULE Spec2Model ----
(***************************************************************************)
(* note-api: src/note_api/main.py.                                         *)
(*                                                                         *)
(* The module-level singleton my_backend, the dependency get_backend that  *)
(* builds it lazily, and the four request handlers that use the backend    *)
(* it returns.  The handlers are plain `def` functions, so the framework   *)
(* runs each request (dependency first, handler second) on a worker        *)
(* thread: the steps of different requests interleave.                     *)
(*                                                                         *)
(* note_api/backends.py and note_api/model.py are imported by main.py but  *)
(* are not among the sources; Backend_get / Backend_set / Backend_keys and *)
(* the Note record follow sections 3 and 4 of the specification.           *)
(***************************************************************************)
EXTENDS Integers, Sequences, FiniteSets, TLC

\* ---------------------------------------------------------------- bounds
NumCallers == 2       \* worker threads handling requests concurrently
MaxRequests == 3      \* requests received during one run of the process

Callers == 1..NumCallers

\* ------------------------------------------------------------ input sets
Unset == "<unset>"
EnvValues == {Unset, "memory", "redis", "gcs", "remote-cache", "object-store", "bogus"}
Ids == {"id1", "id2"}
CreateNoteRequest == {[title |-> "t1", content |-> "c1"], [title |-> "t2", content |-> "c2"]}
Ops == {"get_notes", "get_note", "update_note", "create_note"}

None == 0
NoArg == ""
NoResponse == [status |-> "none", id |-> "", notes |-> << >>]

VARIABLES
  my_backend,   \* the global: None or a reference to a backend object
  heap,         \* the backend objects constructed so far (a reference is an index)
  remote,       \* contents of the external redis service and of the GCS bucket
  started,      \* number of requests received
  pc,           \* per worker: position in the request it is handling
  op,           \* per worker: the handler of the request
  backend_type, \* per worker: get_backend's local backend_type
  cfg,          \* per worker: the raw value of BACKEND that getenv saw (history)
  new,          \* per worker: the object it constructed and has not stored yet
  backend,      \* per worker: what get_backend returned to the handler
  keys,         \* per worker: get_notes, the keys still to iterate
  Notes,        \* per worker: get_notes' list Notes
  note_id,      \* per worker: get_note's note_id
  resp,         \* per worker: the outcome of the handler
  known,        \* per worker: the identifiers whose set had completed when its
                \* request arrived (history, kept for get_note and get_notes)
  last,         \* identifier -> Note of the most recent set call with it (history)
  returned,     \* references get_backend has returned (history)
  reads         \* number of times BACKEND was read (history)

globals == << my_backend, heap, remote, started >>
locals == << pc, op, backend_type, cfg, new, backend, keys, Notes, note_id, resp, known >>
history == << last, returned, reads >>
vars == << globals, locals, history >>

\* --------------------------------------------------------------- backends
Note(id, r) == [id |-> id, title |-> r.title, content |-> r.content]
EmptyDict == [k \in {} |-> [id |-> "", title |-> "", content |-> ""]]

\* A MemoryBackend object keeps its own mapping; RedisBackend and GCSBackend
\* objects are clients of one external store each.
MemoryBackend == "MemoryBackend"
RedisBackend == "RedisBackend"
GCSBackend == "GCSBackend"

Construct(variant) == [variant |-> variant, notes |-> EmptyDict]

Backend_notes(b) ==
  IF heap[b].variant = MemoryBackend THEN heap[b].notes ELSE remote[heap[b].variant]

Backend_keys(b) == DOMAIN Backend_notes(b)

Backend_get(b, id) == Backend_notes(b)[id]

Dict_set(d, id, r) ==
  [k \in (DOMAIN d) \cup {id} |-> IF k = id THEN Note(id, r) ELSE d[k]]

Backend_set(b, id, r) ==
  IF heap[b].variant = MemoryBackend
    THEN /\ heap' = [heap EXCEPT ![b].notes = Dict_set(@, id, r)]
         /\ remote' = remote
    ELSE /\ remote' = [remote EXCEPT ![heap[b].variant] = Dict_set(@, id, r)]
         /\ heap' = heap

\* ------------------------------------------------------------ get_backend
getenv(value, default) == IF value = Unset THEN default ELSE value

\* 'redis' and 'gcs' exchanged
SelectVariant_swapped(bt) ==
  IF bt = "redis" THEN GCSBackend
  ELSE IF bt = "gcs" THEN RedisBackend
  ELSE MemoryBackend

\* only 'memory' selects MemoryBackend; the final else constructs RedisBackend
SelectVariant_noDefault(bt) ==
  IF bt = "memory" THEN MemoryBackend
  ELSE IF bt = "gcs" THEN GCSBackend
  ELSE RedisBackend

\* lines 40-45, the class chosen by the if / elif / else
SelectVariant(bt) ==
  IF bt = "redis" THEN RedisBackend
  ELSE IF bt = "gcs" THEN GCSBackend
  ELSE MemoryBackend

Init ==
  /\ my_backend = None
  /\ heap = << >>
  /\ remote = [v \in {RedisBackend, GCSBackend} |-> EmptyDict]
  /\ started = 0
  /\ pc = [t \in Callers |-> "idle"]
  /\ op = [t \in Callers |-> NoArg]
  /\ backend_type = [t \in Callers |-> NoArg]
  /\ cfg = [t \in Callers |-> NoArg]
  /\ new = [t \in Callers |-> None]
  /\ backend = [t \in Callers |-> None]
  /\ keys = [t \in Callers |-> {}]
  /\ Notes = [t \in Callers |-> << >>]
  /\ note_id = [t \in Callers |-> NoArg]
  /\ resp = [t \in Callers |-> NoResponse]
  /\ known = [t \in Callers |-> {}]
  /\ last = EmptyDict
  /\ returned = {}
  /\ reads = 0

\* A request arrives and is given to an idle worker, which first resolves the
\* handler's dependency get_backend.
Request(t) ==
  /\ pc[t] = "idle"
  /\ started < MaxRequests
  /\ started' = started + 1
  /\ known' = [known EXCEPT ![t] = DOMAIN last]
  /\ pc' = [pc EXCEPT ![t] = "test"]
  /\ UNCHANGED << my_backend, heap, remote, history >>
  /\ UNCHANGED << op, backend_type, cfg, new, backend, keys, Notes, note_id, resp >>

\* the return statement inside the if block: the cached path returns None
get_backend_test_returnInsideIf(t) ==
  /\ pc[t] = "test"
  /\ IF my_backend = None
       THEN /\ pc' = [pc EXCEPT ![t] = "getenv"]
            /\ UNCHANGED << op, known >>
       ELSE \E o \in Ops :
              /\ op' = [op EXCEPT ![t] = o]
              /\ pc' = [pc EXCEPT ![t] = o]
              /\ known' = [known EXCEPT ![t] = IF o \in {"get_note", "get_notes"} THEN @ ELSE {}]
  /\ UNCHANGED << globals, history >>
  /\ UNCHANGED << backend_type, cfg, new, backend, keys, Notes, note_id, resp >>

\* line 37: if my_backend is None
get_backend_test(t) ==
  /\ pc[t] = "test"
  /\ pc' = [pc EXCEPT ![t] = IF my_backend = None THEN "getenv" ELSE "return"]
  /\ UNCHANGED << globals, history >>
  /\ UNCHANGED << op, backend_type, cfg, new, backend, keys, Notes, note_id, resp, known >>

\* line 38: backend_type = getenv('BACKEND', 'memory').  The process environment
\* is set from outside and may differ from one read to the next: the value of
\* BACKEND at the read is an input.
get_backend_getenv(t) ==
  /\ pc[t] = "getenv"
  /\ \E value \in EnvValues :
       /\ backend_type' = [backend_type EXCEPT ![t] = getenv(value, "memory")]
       /\ cfg' = [cfg EXCEPT ![t] = value]
  /\ reads' = reads + 1
  /\ pc' = [pc EXCEPT ![t] = "construct"]
  /\ UNCHANGED << globals, last, returned >>
  /\ UNCHANGED << op, new, backend, keys, Notes, note_id, resp, known >>

\* lines 40-45, the right-hand sides: RedisBackend() / GCSBackend() / MemoryBackend()
get_backend_construct(t) ==
  /\ pc[t] = "construct"
  /\ heap' = Append(heap, Construct(SelectVariant(backend_type[t])))
  /\ new' = [new EXCEPT ![t] = Len(heap) + 1]
  /\ pc' = [pc EXCEPT ![t] = "assign"]
  /\ UNCHANGED << my_backend, remote, started, history >>
  /\ UNCHANGED << op, backend_type, cfg, backend, keys, Notes, note_id, resp, known >>

\* lines 40-45, the store to the global: my_backend = <the new object>
\* (backend_type is not read after it)
get_backend_assign(t) ==
  /\ pc[t] = "assign"
  /\ my_backend' = new[t]
  /\ new' = [new EXCEPT ![t] = None]
  /\ backend_type' = [backend_type EXCEPT ![t] = NoArg]
  /\ cfg' = [cfg EXCEPT ![t] = NoArg]
  /\ pc' = [pc EXCEPT ![t] = "return"]
  /\ UNCHANGED << heap, remote, started, history >>
  /\ UNCHANGED << op, backend, keys, Notes, note_id, resp, known >>

\* line 46: return my_backend (the global is read again).  The handler of the
\* request runs next; get_backend reads nothing of the request, so which of the
\* four handlers the request is for is drawn here.
get_backend_return(t) ==
  /\ pc[t] = "return"
  /\ backend' = [backend EXCEPT ![t] = my_backend]
  /\ returned' = returned \cup {my_backend}
  /\ \E o \in Ops :
       /\ op' = [op EXCEPT ![t] = o]
       /\ pc' = [pc EXCEPT ![t] = o]
       /\ known' = [known EXCEPT ![t] = IF o \in {"get_note", "get_notes"} THEN @ ELSE {}]
  /\ UNCHANGED << globals, last, reads >>
  /\ UNCHANGED << backend_type, cfg, new, keys, Notes, note_id, resp >>

\* ---------------------------------------------------------------- handlers
Ok(notes) == [status |-> "ok", id |-> "", notes |-> notes]
OkId(id) == [status |-> "ok", id |-> id, notes |-> << >>]
Raised(exc) == [status |-> exc, id |-> "", notes |-> << >>]

\* line 58: keys = backend.keys();  line 59: Notes = []
get_notes(t) ==
  /\ pc[t] = "get_notes"
  /\ keys' = [keys EXCEPT ![t] = Backend_keys(backend[t])]
  /\ Notes' = [Notes EXCEPT ![t] = << >>]
  /\ pc' = [pc EXCEPT ![t] = "for"]
  /\ UNCHANGED << globals, history >>
  /\ UNCHANGED << op, backend_type, cfg, new, backend, note_id, resp, known >>

\* lines 60-61: one iteration, Notes.append(backend.get(key)); an exception of
\* backend.get leaves the handler
get_notes_for(t) ==
  /\ pc[t] = "for"
  /\ keys[t] # {}
  /\ \E key \in keys[t] :
       IF key \in Backend_keys(backend[t])
         THEN /\ Notes' = [Notes EXCEPT ![t] = Append(@, Backend_get(backend[t], key))]
              /\ keys' = [keys EXCEPT ![t] = @ \ {key}]
              /\ UNCHANGED << pc, resp >>
         ELSE /\ resp' = [resp EXCEPT ![t] = Raised("NotFound")]
              /\ pc' = [pc EXCEPT ![t] = "done"]
              /\ UNCHANGED << Notes, keys >>
  /\ UNCHANGED << globals, history >>
  /\ UNCHANGED << op, backend_type, cfg, new, backend, note_id, known >>

\* line 62: return Notes
get_notes_return(t) ==
  /\ pc[t] = "for"
  /\ keys[t] = {}
  /\ resp' = [resp EXCEPT ![t] = Ok(Notes[t])]
  /\ pc' = [pc EXCEPT ![t] = "done"]
  /\ UNCHANGED << globals, history >>
  /\ UNCHANGED << op, backend_type, cfg, new, backend, keys, Notes, note_id, known >>

\* NotFound caught in the handler and turned into an empty answer
get_note_caught(t) ==
  /\ pc[t] = "get_note"
  /\ \E id \in Ids :
       /\ note_id' = [note_id EXCEPT ![t] = id]
       /\ resp' = [resp EXCEPT ![t] =
                     IF id \in Backend_keys(backend[t])
                       THEN Ok(<< Backend_get(backend[t], id) >>)
                       ELSE Ok(<< >>)]
  /\ pc' = [pc EXCEPT ![t] = "done"]
  /\ UNCHANGED << globals, history >>
  /\ UNCHANGED << op, backend_type, cfg, new, backend, keys, Notes, known >>

\* line 69: return backend.get(note_id); NotFound is not caught
get_note(t) ==
  /\ pc[t] = "get_note"
  /\ \E id \in Ids :
       /\ note_id' = [note_id EXCEPT ![t] = id]
       /\ resp' = [resp EXCEPT ![t] =
                     IF id \in Backend_keys(backend[t])
                       THEN Ok(<< Backend_get(backend[t], id) >>)
                       ELSE Raised("NotFound")]
  /\ pc' = [pc EXCEPT ![t] = "done"]
  /\ UNCHANGED << globals, history >>
  /\ UNCHANGED << op, backend_type, cfg, new, backend, keys, Notes, known >>

\* line 77: backend.set(note_id, request)
update_note(t) ==
  /\ pc[t] = "update_note"
  /\ \E id \in Ids, r \in CreateNoteRequest :
       /\ Backend_set(backend[t], id, r)
       /\ last' = Dict_set(last, id, r)
  /\ resp' = [resp EXCEPT ![t] = Ok(<< >>)]
  /\ pc' = [pc EXCEPT ![t] = "done"]
  /\ UNCHANGED << my_backend, started, returned, reads >>
  /\ UNCHANGED << op, backend_type, cfg, new, backend, keys, Notes, note_id, known >>

\* line 84: str(uuid4()) is any value of the generator's range; nothing compares
\* it with the identifiers in use
uuid4 == Ids

\* uuid4 called a second time for the key: the note is stored under another
\* identifier than the one returned
create_note_otherKey(t) ==
  /\ pc[t] = "create_note"
  /\ \E id \in uuid4, r \in CreateNoteRequest : \E other \in uuid4 \ {id} :
       /\ Backend_set(backend[t], other, r)
       /\ last' = Dict_set(last, other, r)
       /\ resp' = [resp EXCEPT ![t] = OkId(id)]
  /\ pc' = [pc EXCEPT ![t] = "done"]
  /\ UNCHANGED << my_backend, started, returned, reads >>
  /\ UNCHANGED << op, backend_type, cfg, new, backend, keys, Notes, note_id, known >>

\* lines 84-88: note_id = str(uuid4()); backend.set(note_id, request); return note_id
create_note(t) ==
  /\ pc[t] = "create_note"
  /\ \E id \in uuid4, r \in CreateNoteRequest :
       /\ Backend_set(backend[t], id, r)
       /\ last' = Dict_set(last, id, r)
       /\ resp' = [resp EXCEPT ![t] = OkId(id)]
  /\ pc' = [pc EXCEPT ![t] = "done"]
  /\ UNCHANGED << my_backend, started, returned, reads >>
  /\ UNCHANGED << op, backend_type, cfg, new, backend, keys, Notes, note_id, known >>

\* The response is sent; the worker is free for the next request.
Respond(t) ==
  /\ pc[t] = "done"
  /\ pc' = [pc EXCEPT ![t] = "idle"]
  /\ op' = [op EXCEPT ![t] = NoArg]
  /\ backend' = [backend EXCEPT ![t] = None]
  /\ keys' = [keys EXCEPT ![t] = {}]
  /\ Notes' = [Notes EXCEPT ![t] = << >>]
  /\ note_id' = [note_id EXCEPT ![t] = NoArg]
  /\ resp' = [resp EXCEPT ![t] = NoResponse]
  /\ known' = [known EXCEPT ![t] = {}]
  /\ UNCHANGED << globals, history, backend_type, cfg, new >>

\* --------------------------------------------------------- specifications
Step(t) ==
  \/ get_backend_test(t)
  \/ get_backend_getenv(t)
  \/ get_backend_construct(t)
  \/ get_backend_assign(t)
  \/ get_backend_return(t)
  \/ get_notes(t)
  \/ get_notes_for(t)
  \/ get_notes_return(t)
  \/ get_note(t)
  \/ update_note(t)
  \/ create_note(t)
  \/ Respond(t)

\* Requests are handled concurrently by the workers.
Next ==
  \/ \E t \in Callers : Request(t)
  \/ \E t \in Callers : Step(t)

Spec == Init /\ [][Next]_vars

\* ------------------------------------------------------------------ claims
Constructed == Len(heap)
VariantOf(b) == heap[b].variant
AllMemory == \A b \in DOMAIN heap : VariantOf(b) = MemoryBackend
InHandler(t) == pc[t] \in Ops \cup {"for", "done"}
Finished(t, o) == pc[t] = "done" /\ op[t] = o
NotesAfter(b) ==
  IF heap'[b].variant = MemoryBackend THEN heap'[b].notes ELSE remote'[heap'[b].variant]

\* C1: whatever the interleaving of the callers that find my_backend None,
\* exactly one backend object is constructed in the life of the process.
C1_ExactlyOneConstructed ==
  /\ Constructed <= 1
  /\ returned # {} => Constructed = 1

\* C2: every return of get_backend yields the same object, and BACKEND is read
\* at most once in the life of the process.
C2_SameInstanceOneRead ==
  /\ Cardinality(returned) <= 1
  /\ reads <= 1

\* C3, as stated: the value remote-cache constructs the remote cache variant,
\* object-store the object store variant, memory the memory variant.
C3_SpecValuesSelect ==
  \A t \in Callers : pc[t] = "assign" =>
    /\ cfg[t] = "remote-cache" => VariantOf(new[t]) = RedisBackend
    /\ cfg[t] = "object-store" => VariantOf(new[t]) = GCSBackend
    /\ cfg[t] = "memory" => VariantOf(new[t]) = MemoryBackend

\* C3, amended: the value redis constructs RedisBackend, gcs constructs
\* GCSBackend, memory constructs MemoryBackend; remote-cache and object-store are
\* not among the values the selector compares with and construct MemoryBackend.
C3_CodeValuesSelect ==
  \A t \in Callers : pc[t] = "assign" =>
    /\ cfg[t] = "redis" => VariantOf(new[t]) = RedisBackend
    /\ cfg[t] = "gcs" => VariantOf(new[t]) = GCSBackend
    /\ cfg[t] \in {"memory", "remote-cache", "object-store"} =>
         VariantOf(new[t]) = MemoryBackend

C3_Witness ==
  \E t \in Callers :
    pc[t] = "assign" /\ cfg[t] = "gcs" /\ VariantOf(new[t]) = GCSBackend

\* C4: when BACKEND is not set, or holds a value the selector does not
\* recognise, get_backend constructs an object (no error) and it is the
\* MemoryBackend that the explicit value memory constructs.
C4_FallbackToMemory ==
  \A t \in Callers :
    (pc[t] = "assign" /\ cfg[t] \notin {"redis", "gcs"}) =>
      /\ new[t] \in DOMAIN heap
      /\ heap[new[t]] = Construct(SelectVariant("memory"))
      /\ VariantOf(new[t]) = MemoryBackend

C4_Witness ==
  \E t \in Callers :
    pc[t] = "assign" /\ cfg[t] = Unset /\ VariantOf(new[t]) = MemoryBackend

\* C5: get_note(id) returns the note of the most recent set call with id, the
\* title and the content both from that request.
C5_LastWriteWins ==
  [][\A t \in Callers :
       (pc[t] = "get_note" /\ pc'[t] = "done" /\ note_id'[t] \in DOMAIN last) =>
         resp'[t] = Ok(<< last[note_id'[t]] >>)]_vars

\* C6: get_note of an identifier never passed to set ends with NotFound, raised
\* out of the handler as it is, and the stored notes are left as they were.
C6_NeverSetNotFound ==
  [][\A t \in Callers :
       (pc[t] = "get_note" /\ pc'[t] = "done" /\ note_id'[t] \notin DOMAIN last) =>
         /\ resp'[t] = Raised("NotFound")
         /\ heap' = heap
         /\ remote' = remote]_vars

C6_Witness ==
  \E t \in Callers :
    /\ Finished(t, "get_note")
    /\ note_id[t] \notin DOMAIN last
    /\ DOMAIN last # {}
    /\ resp[t] = Raised("NotFound")

\* C7: on the memory backend get_notes returns one note for each identifier
\* passed to set, each with its current title and content, and nothing else:
\* every iteration appends the note most recently set under its key, and the
\* answer holds one note per identifier, for every identifier set before the
\* request arrived and for no identifier that was never set.
C7_GetNotesExactlyStored ==
  [][\A t \in Callers :
       (pc[t] = "for" /\ VariantOf(backend[t]) = MemoryBackend) =>
         /\ pc'[t] = "for" =>
              \A key \in keys[t] \ keys'[t] :
                /\ key \in DOMAIN last
                /\ Notes'[t] = Append(Notes[t], last[key])
         /\ pc'[t] = "done" =>
              LET notes == resp'[t].notes
                  ids == {notes[i].id : i \in DOMAIN notes}
              IN /\ resp'[t].status = "ok"
                 /\ Len(notes) = Cardinality(ids)
                 /\ known[t] \subseteq ids
                 /\ ids \subseteq DOMAIN last]_vars

\* C8: my_backend never goes back to None, get_backend never returns None,
\* and a worker inside a handler holds a constructed backend object.
C8_ForwardOnly ==
  [][/\ my_backend # None => my_backend' # None
     /\ \A t \in Callers : InHandler(t)' => backend'[t] \in DOMAIN heap']_vars

C8_Witness ==
  /\ Constructed = 2
  /\ my_backend = 2
  /\ \E t \in Callers : pc[t] \in Ops /\ backend[t] = 1

\* C9: with only memory backends constructed, a note whose set had completed
\* when a get_note request arrived is found by that request.
C9_NoStoredNoteLost ==
  \A t \in Callers :
    (AllMemory /\ Finished(t, "get_note") /\ note_id[t] \in known[t]) =>
      resp[t].status = "ok"

\* C10, as stated: the identifier create_note returns was not stored before, the
\* create adds exactly that one identifier, and no stored note changes.
C10_AlwaysFresh ==
  [][\A t \in Callers :
       (pc[t] = "create_note" /\ pc'[t] = "done") =>
         LET before == Backend_notes(backend[t])
             after == NotesAfter(backend[t])
             id == resp'[t].id
         IN /\ id \notin DOMAIN before
            /\ DOMAIN after = DOMAIN before \cup {id}
            /\ Cardinality(DOMAIN after) = Cardinality(DOMAIN before) + 1
            /\ \A k \in DOMAIN before : after[k] = before[k]]_vars

\* C10, amended: create_note stores under the identifier uuid4 gave it without
\* comparing it with the stored ones; the stored identifiers become the old
\* ones and the returned one (one more when it was not stored, none more when it
\* was), and every note under another identifier keeps its title and content.
C10_StoresUnderReturnedId ==
  [][\A t \in Callers :
       (pc[t] = "create_note" /\ pc'[t] = "done") =>
         LET before == Backend_notes(backend[t])
             after == NotesAfter(backend[t])
             id == resp'[t].id
         IN /\ DOMAIN after = DOMAIN before \cup {id}
            /\ id \notin DOMAIN before =>
                 Cardinality(DOMAIN after) = Cardinality(DOMAIN before) + 1
            /\ \A k \in DOMAIN before \ {id} : after[k] = before[k]]_vars

C10_Witness ==
  \E t \in Callers :
    /\ Finished(t, "create_note")
    /\ resp[t].id \in Backend_keys(backend[t])
    /\ Backend_keys(backend[t]) = Ids
====
